---- MODULE Spec2Model ----
(***************************************************************************)
(* A model of the PS Plus catalogue API: the refresher (refresher.js), the *)
(* cached view handlers and the admin trigger (routes).                    *)
(*                                                                         *)
(* Time is counted in days.  A game name is a natural number standing for  *)
(* its place in the localeCompare order; 0 stands for the empty string.    *)
(***************************************************************************)
EXTENDS Integers, Sequences, FiniteSets, TLC

(***************************************************************************)
(* Bounds of the model.                                                    *)
(***************************************************************************)
\* refresh runs started in one behaviour: of Spec, and of the other
\* specifications
MaxRuns == 2
FewRuns == 1
\* injected I/O failures (fetch, mkdir, writeFile, readFile) in one behaviour:
\* of SpecFaults, and of the other specifications
ManyFaults == 2
MaxFaults == 1
\* view computations (cache misses) in one behaviour of SpecViews
MaxGets == 2
\* listeners registered on top of the cache's own
MaxListeners == 2
\* the last day of the clock
MaxNow == 4
\* the largest conceptId of the snapshots of SpecIds, and the longest string
\* hashed
MaxConceptId == 60
MaxLen == 3

(***************************************************************************)
(* Program constants (days).                                               *)
(***************************************************************************)
\* refresher.js:17  const THREE_DAYS_MS = 2 * 24 * 60 * 60 * 1000
THREE_DAYS_MS == 2
\* refresher.js:154 const ONE_DAY_MS = 24 * 60 * 60 * 1000
ONE_DAY_MS == 1

(***************************************************************************)
(* Files and sources.                                                      *)
(***************************************************************************)
\* Object.keys(ENDPOINTS), in insertion order
ENDPOINTS ==
    << "plus-games-list.txt", "ubisoft-classics-list.txt",
       "plus-classics-list.txt", "plus-monthly-games-list.txt" >>

SourceNames == { ENDPOINTS[i] : i \in 1..Len(ENDPOINTS) }

AllFile == "all.txt"

FileNames == SourceNames \cup {AllFile}

\* the cache keys of routes, and the file each per-source view reads
Views == {"included", "classics", "monthly", "ubisoft", "all"}

ViewFile(v) ==
    CASE v = "included" -> "plus-games-list.txt"
      [] v = "classics" -> "plus-classics-list.txt"
      [] v = "monthly"  -> "plus-monthly-games-list.txt"
      [] v = "ubisoft"  -> "ubisoft-classics-list.txt"

\* a concatenation in the order of the keys of ENDPOINTS
AllGamesOrder_AsEndpoints == ENDPOINTS

\* the order in which GET /all-games concatenates the sources
AllGamesOrder ==
    << "plus-games-list.txt", "plus-classics-list.txt",
       "plus-monthly-games-list.txt", "ubisoft-classics-list.txt" >>

(***************************************************************************)
(* Texts.  A text is what a file holds or a fetch returns: JSON text of a  *)
(* value (kind "json"), text that JSON.parse rejects (kind "notjson"), the *)
(* empty text of a file opened for writing and not yet written (kind       *)
(* "empty"), or no file at all (kind "absent").                            *)
(***************************************************************************)
NoName == -1

Game(id, name, dev) == [conceptId |-> id, name |-> name, device |-> dev]

Group(key, games) == [catalogKey |-> key, hasGames |-> TRUE, games |-> games]

GroupNoGames(key) == [catalogKey |-> key, hasGames |-> FALSE, games |-> << >>]

Json(val) == [kind |-> "json", val |-> val]

NotJson == [kind |-> "notjson", val |-> << >>]

EmptyText == [kind |-> "empty", val |-> << >>]

Absent == [kind |-> "absent", val |-> << >>]

(***************************************************************************)
(* Pure helpers of refresher.js and routes.                                *)
(***************************************************************************)
\* JSON.parse(txt): throws on anything that is not JSON text
ParseThrows(txt) == txt.kind # "json"

\* g.games || []
GamesOf(g) == IF g.hasGames THEN g.games ELSE << >>

\* groups.flatMap(g => g.games || [])
RECURSIVE Flatten(_)
Flatten(groups) ==
    IF groups = << >> THEN << >>
    ELSE GamesOf(Head(groups)) \o Flatten(Tail(groups))

\* (a && a.name) || ''  : the key the refresher sorts on
NameOrEmpty(g) == IF g.name = NoName THEN 0 ELSE g.name

\* Array.prototype.sort is stable: x goes behind every element that does not
\* compare greater
RECURSIVE InsertByKey(_, _, _)
InsertByKey(x, kx, sorted) ==
    IF sorted = << >> THEN << x >>
    ELSE IF Head(sorted).k <= kx
         THEN << Head(sorted) >> \o InsertByKey(x, kx, Tail(sorted))
         ELSE << x >> \o sorted

RECURSIVE SortKeyed(_)
SortKeyed(keyed) ==
    IF keyed = << >> THEN << >>
    ELSE LET front == SortKeyed(SubSeq(keyed, 1, Len(keyed) - 1))
             last  == keyed[Len(keyed)]
         IN  InsertByKey(last, last.k, front)

\* a sortByName that returns its copy unsorted
sortByName_NoSort(games) == games

\* refresher.js sortByName
sortByName(games) ==
    LET keyed  == [i \in 1..Len(games) |-> [k |-> NameOrEmpty(games[i]), g |-> games[i]]]
        sorted == SortKeyed(keyed)
    IN  [i \in 1..Len(sorted) |-> sorted[i].g]

\* the place of the string "undefined" in the order of names: what
\* x.localeCompare(undefined) compares x with
UndefinedName == 9

\* routes sortByName: a.name.localeCompare(b.name) throws a TypeError when it
\* is called with a name-less a.  Node's sort calls the comparator with every
\* element but the first as a, and never on fewer than two elements.
routesSortThrows(arr) ==
    \E i \in 2..Len(arr) : arr[i].name = NoName

routesSortByName(arr) ==
    LET key(g) == IF g.name = NoName THEN UndefinedName ELSE g.name
        keyed  == [i \in 1..Len(arr) |-> [k |-> key(arr[i]), g |-> arr[i]]]
        sorted == SortKeyed(keyed)
    IN  [i \in 1..Len(sorted) |-> sorted[i].g]

(***************************************************************************)
(* 32-bit words are kept as two 16-bit halves.  JavaScript's << and ^ give  *)
(* a signed 32-bit value and + adds doubles exactly at these magnitudes, so *)
(* the >>> 0 that ends each round leaves the sum of the unsigned values     *)
(* modulo 2^32.                                                             *)
(***************************************************************************)
Half == 65536

Word(hi, lo) == [hi |-> hi, lo |-> lo]

\* a ^ b on 16-bit values
RECURSIVE XorBits(_, _, _)
XorBits(a, b, n) ==
    IF n = 0 THEN 0
    ELSE (((a % 2) + (b % 2)) % 2) + 2 * XorBits(a \div 2, b \div 2, n - 1)

\* h ^= str.charCodeAt(i): a UTF-16 code unit touches the low half only
XorChar(h, ch) == Word(h.hi, XorBits(h.lo, ch, 16))

RECURSIVE Pow2(_)
Pow2(k) == IF k = 0 THEN 1 ELSE 2 * Pow2(k - 1)

\* h << k
Shl(h, k) ==
    IF k >= 16
    THEN Word((h.lo * Pow2(k - 16)) % Half, 0)
    ELSE LET low == h.lo * Pow2(k)
         IN  Word((((h.hi * Pow2(k)) % Half) + (low \div Half)) % Half, low % Half)

\* (a + b) >>> 0
Add32(a, b) ==
    LET low == a.lo + b.lo
    IN  Word((a.hi + b.hi + (low \div Half)) % Half, low % Half)

\* a round that leaves out the shift by 24
FoldPrime_NoShift24(h) ==
    Add32(h, Add32(Add32(Add32(Shl(h, 1), Shl(h, 4)), Shl(h, 7)), Shl(h, 8)))

\* line 22: h = (h + ((h << 1) + (h << 4) + (h << 7) + (h << 8) + (h << 24))) >>> 0
FoldPrime(h) ==
    Add32(h, Add32(Add32(Add32(Add32(Shl(h, 1), Shl(h, 4)), Shl(h, 7)), Shl(h, 8)),
                   Shl(h, 24)))

\* line 18: 0x811c9dc5
OffsetBasis == Word(33052, 40389)

\* fnv1a32(str), str a sequence of UTF-16 code units
RECURSIVE fnv1a32(_)
fnv1a32(str) ==
    IF str = << >> THEN OffsetBasis
    ELSE FoldPrime(XorChar(fnv1a32(SubSeq(str, 1, Len(str) - 1)), str[Len(str)]))

\* n divided by 36: quotient and remainder
DivMod36(n) ==
    LET rest == ((n.hi % 36) * Half) + n.lo
    IN  [q |-> Word(n.hi \div 36, rest \div 36), r |-> rest % 36]

\* n.toString(36): the digits 0..35 stand for the characters 0-9a-z
RECURSIVE Digits36(_)
Digits36(n) ==
    IF n = Word(0, 0) THEN << >>
    ELSE Append(Digits36(DivMod36(n).q), DivMod36(n).r)

toString36(n) == IF n = Word(0, 0) THEN << 0 >> ELSE Digits36(n)

\* String(conceptId) of a number: its decimal digits as code units
RECURSIVE DecimalDigits(_)
DecimalDigits(n) ==
    IF n < 10 THEN << 48 + n >>
    ELSE Append(DecimalDigits(n \div 10), 48 + (n % 10))

\* ("000000" + base36).slice(-6)
LastSix(base36) ==
    LET padded == << 0, 0, 0, 0, 0, 0 >> \o base36
    IN  SubSeq(padded, Len(padded) - 5, Len(padded))

\* shortId of a string
shortIdOf(str) == LastSix(toString36(fnv1a32(str)))

\* shortId(conceptId)
shortId(conceptId) == shortIdOf(DecimalDigits(conceptId))

\* routes toPublicGame: a renaming projection (device becomes available_on)
toPublicGame(g) ==
    [id |-> shortId(g.conceptId), conceptId |-> g.conceptId, name |-> g.name,
     available_on |-> g.device]

\* the Map of GET /all-games: the first game of each conceptId, in the order
\* of first insertion
RECURSIVE DedupeByConceptId(_, _)
DedupeByConceptId(games, seen) ==
    IF games = << >> THEN << >>
    ELSE IF Head(games).conceptId \in seen
         THEN DedupeByConceptId(Tail(games), seen)
         ELSE << Head(games) >>
              \o DedupeByConceptId(Tail(games), seen \cup {Head(games).conceptId})

\* generateAllMerged's payload from the four parsed texts, in ENDPOINTS order
AllPayload(parsed) ==
    LET allGames    == Flatten(parsed[1]) \o Flatten(parsed[2])
                       \o Flatten(parsed[3]) \o Flatten(parsed[4])
        gamesSorted == sortByName(allGames)
    IN  Json(<< [catalogKey |-> "ALL", count |-> Len(gamesSorted),
                 hasGames |-> TRUE, games |-> gamesSorted] >>)

(***************************************************************************)
(* What the upstream endpoints can answer.  Names: 1 = "A", 2 = "B", ...   *)
(***************************************************************************)
BasicTexts(s) ==
    CASE s = "plus-games-list.txt" ->
           { Json(<< Group("PLUS", << Game(2, 3, "PS5") >>), GroupNoGames("PLUS2") >>),
             NotJson }
      [] s = "ubisoft-classics-list.txt" ->
           { Json(<< Group("UBI", << Game(4, NoName, "PS4") >>) >>) }
      [] s = "plus-classics-list.txt" ->
           { Json(<< Group("CLASSIC", << Game(1, 2, "PS3") >>) >>) }
      [] s = "plus-monthly-games-list.txt" ->
           { Json(<< Group("MONTH", << Game(3, 1, "PS5") >>) >>) }

\* more answers: empty snapshots, several groups, repeated conceptIds and
\* names, name-less games
RichTexts(s) ==
    CASE s = "plus-games-list.txt" ->
           { Json(<< >>),
             Json(<< Group("PLUS", << Game(2, 3, "PS5"), Game(1, 2, "PS5") >>),
                     GroupNoGames("PLUS2"),
                     Group("PLUS3", << Game(5, 1, "PS4") >>) >>),
             NotJson }
      [] s = "ubisoft-classics-list.txt" ->
           { Json(<< >>),
             Json(<< Group("UBI", << Game(4, NoName, "PS4"), Game(6, 1, "PS4") >>) >>) }
      [] s = "plus-classics-list.txt" ->
           { Json(<< >>),
             Json(<< Group("CLASSIC", << Game(1, 2, "PS3"), Game(7, 1, "PS3") >>) >>) }
      [] s = "plus-monthly-games-list.txt" ->
           { Json(<< >>),
             Json(<< Group("MONTH", << Game(3, 1, "PS5"), Game(2, 3, "PS4") >>) >>) }

\* the snapshots the deployment ships in full_responses/
ShippedText(s) ==
    CASE s = "plus-games-list.txt" ->
           Json(<< Group("PLUS", << Game(1, 2, "PS5"), Game(2, 1, "PS4") >>) >>)
      [] s = "ubisoft-classics-list.txt"   -> Json(<< >>)
      [] s = "plus-classics-list.txt"      -> Json(<< >>)
      [] s = "plus-monthly-games-list.txt" -> Json(<< >>)

(***************************************************************************)
(* State.                                                                  *)
(***************************************************************************)
VARIABLES
    isRefreshing,   \* refresher.js: let isRefreshing
    listeners,      \* refresher.js: const listeners, the kinds of the callbacks
    files,          \* full_responses/: name -> [text, mtime, ver]
    cache,          \* routes: const cache
    call,           \* the calls of maybeRefresh / POST /admin/refresh in flight
    now,            \* Date.now(), in days
    runs,           \* refresh runs started
    faults,         \* I/O failures injected
    gets,           \* views computed
    due,            \* when scheduleRefresh's next evaluation is due, in days
    limit           \* the bounds of the behaviour: runs, faults, gets, listeners,
                    \* and whether the endpoints answer from the rich set of texts

vars == << isRefreshing, listeners, files, cache, call, now, runs, faults, gets, limit, due >>

\* the two callers of refreshOnce: scheduleRefresh's maybeRefresh and the
\* handler of POST /admin/refresh
Calls == {"sched", "admin"}

SchedCall == "sched"

AdminCalls == Calls \ {SchedCall}

NoEntry == [present |-> FALSE, count |-> 0, games |-> << >>,
            gens |-> [s \in SourceNames |-> -1]]

NoResult == [kind |-> "none", anyRejected |-> FALSE, statuses |-> {}]

IdleCall ==
    [ pc       |-> "idle",
      src      |-> [s \in SourceNames |-> "none"],
      data     |-> [s \in SourceNames |-> Absent],
      statuses |-> {},
      merged   |-> Absent,
      i        |-> 0,
      called   |-> {},
      before   |-> [f \in FileNames |-> [text |-> Absent, mtime |-> 0, ver |-> 0]],
      exc      |-> FALSE,
      result   |-> NoResult,
      threw    |-> FALSE,
      resp     |-> 0 ]

\* the positions that run without yielding to the event loop: the listener
\* loop, the catch clause and the finally clause of refreshOnce
SyncPcs == {"notify", "catch", "finally", "done"}

InSync == \E c \in Calls : call[c].pc \in SyncPcs

Free(c) == call[c].pc = "idle"

Active(c) == call[c].pc \notin {"idle", "done"}

FileOf(text, mtime, ver) == [text |-> text, mtime |-> mtime, ver |-> ver]

ShippedFiles ==
    [f \in FileNames |->
        IF f = AllFile
        THEN FileOf(AllPayload([i \in 1..4 |-> ShippedText(ENDPOINTS[i]).val]), 0, 0)
        ELSE FileOf(ShippedText(f), 0, 0)]

\* the process starts with the shipped snapshots just past the staleness
\* threshold
StartTime == THREE_DAYS_MS + ONE_DAY_MS

InitAt(lim, t, fs) ==
    /\ limit = lim
    /\ isRefreshing = FALSE
    /\ listeners = << "invalidate" >>
    /\ files = fs
    /\ cache = [v \in Views |-> NoEntry]
    /\ call = [c \in Calls |-> IdleCall]
    /\ now = t
    /\ due = t
    /\ runs = 0
    /\ faults = 0
    /\ gets = 0

InitWith(lim) == InitAt(lim, StartTime, ShippedFiles)

(***************************************************************************)
(* refresher.js                                                            *)
(***************************************************************************)
\* addRefreshListener(fn): what a caller may pass
ListenerInputs == {"throws", "notAFunction"}

addRefreshListener(fn) ==
    /\ ~InSync
    /\ Len(listeners) < 1 + limit.listeners
    /\ fn # "notAFunction"
    /\ listeners' = Append(listeners, fn)
    /\ UNCHANGED << isRefreshing, files, cache, call, now, runs, faults, gets, limit, due >>

\* a staleness test that looks for missing files only
needsRefresh_MissingOnly ==
    \E i \in 1..Len(ENDPOINTS) : files[ENDPOINTS[i]].text.kind = "absent"

\* needsRefresh(): some source file is missing or older than THREE_DAYS_MS
needsRefresh ==
    \E i \in 1..Len(ENDPOINTS) :
        LET st == files[ENDPOINTS[i]]
        IN  \/ st.text.kind = "absent"
            \/ now - st.mtime > THREE_DAYS_MS

\* a refreshOnce without its guard
AlreadyRefreshing_NoGuard == FALSE

\* line 101: if (isRefreshing) return { inProgress: true }
AlreadyRefreshing == isRefreshing

InProgressResult == [kind |-> "inProgress", anyRejected |-> FALSE, statuses |-> {}]

\* refreshOnce() up to its first await (lines 101-105); resp is the answer of
\* the admin handler to an in-progress signal
refreshOnceEnter(c, resp) ==
    IF AlreadyRefreshing
    THEN /\ call' = [call EXCEPT ![c] =
                        [IdleCall EXCEPT !.pc = "done", !.result = InProgressResult,
                                         !.resp = resp]]
         /\ UNCHANGED << isRefreshing, runs >>
    ELSE /\ runs < limit.runs
         /\ isRefreshing' = TRUE
         /\ runs' = runs + 1
         /\ call' = [call EXCEPT ![c] =
                        [IdleCall EXCEPT !.pc = "mkdir", !.before = files]]

\* maybeRefresh() (lines 140-148): refreshOnce when needsRefresh
maybeRefreshCall(c) ==
    /\ c = SchedCall
    /\ Free(c)
    /\ IF needsRefresh
       THEN refreshOnceEnter(c, 0)
       ELSE /\ call' = [call EXCEPT ![c] = [IdleCall EXCEPT !.pc = "done"]]
            /\ UNCHANGED << isRefreshing, runs >>
    /\ UNCHANGED << listeners, files, cache, faults, gets, limit >>

\* maybeRefresh(), from scheduleRefresh's timer, at a time left open
maybeRefresh(c) ==
    /\ ~InSync
    /\ maybeRefreshCall(c)
    /\ UNCHANGED << now, due >>

\* time passes, up to the moment the timer is due
Tick ==
    /\ ~InSync
    /\ now < due
    /\ now < MaxNow
    /\ now' = now + 1
    /\ UNCHANGED << isRefreshing, listeners, files, cache, call, runs, faults, gets, limit, due >>

\* scheduleRefresh() (lines 150-156): maybeRefresh() at the start and then
\* every ONE_DAY_MS. An evaluation made while the scheduler's own run is
\* still in flight finds isRefreshing set and changes nothing.
scheduleRefresh ==
    /\ ~InSync
    /\ now = due
    /\ due' = due + ONE_DAY_MS
    /\ IF Free(SchedCall)
       THEN maybeRefreshCall(SchedCall)
       ELSE UNCHANGED << isRefreshing, listeners, files, cache, call, runs, faults, gets, limit >>
    /\ UNCHANGED now

\* await ensureDir(FULL_DIR) resolves: the four fetches are issued (line 108)
ensureDirOk(c) ==
    /\ ~InSync
    /\ call[c].pc = "mkdir"
    /\ call' = [call EXCEPT ![c].pc = "fanout",
                            ![c].src = [s \in SourceNames |-> "fetching"]]
    /\ UNCHANGED << isRefreshing, listeners, files, cache, now, runs, faults, gets, limit, due >>

\* await ensureDir(FULL_DIR) rejects
ensureDirFail(c) ==
    /\ ~InSync
    /\ call[c].pc = "mkdir"
    /\ faults < limit.faults
    /\ faults' = faults + 1
    /\ call' = [call EXCEPT ![c].pc = "catch", ![c].exc = TRUE]
    /\ UNCHANGED << isRefreshing, listeners, files, cache, now, runs, gets, limit, due >>

\* fsp.writeFile opens the file with flag 'w': it exists and is empty until
\* the data is written
Truncated(f) == FileOf(EmptyText, now, files[f].ver + 1)

\* what the endpoint of s can answer in this behaviour
TextsOf(s) == IF limit.rich THEN RichTexts(s) ELSE BasicTexts(s)

\* fetchRaw(url) resolves with text d and writeFileRaw opens the file
fetchOk(c, s, d) ==
    /\ ~InSync
    /\ call[c].pc = "fanout"
    /\ call[c].src[s] = "fetching"
    /\ call' = [call EXCEPT ![c].src[s] = "writing", ![c].data[s] = d]
    /\ files' = [files EXCEPT ![s] = Truncated(s)]
    /\ UNCHANGED << isRefreshing, listeners, cache, now, runs, faults, gets, limit, due >>

\* fetchRaw(url) rejects (network error, timeout, status): line 111 is not
\* reached
fetchFail(c, s) ==
    /\ ~InSync
    /\ call[c].pc = "fanout"
    /\ call[c].src[s] = "fetching"
    /\ faults < limit.faults
    /\ faults' = faults + 1
    /\ call' = [call EXCEPT ![c].src[s] = "fetchFailed"]
    /\ UNCHANGED << isRefreshing, listeners, files, cache, now, runs, gets, limit, due >>

\* fetchRaw(url) resolves and writeFileRaw rejects without having opened the
\* file (no permission)
openFail(c, s) ==
    /\ ~InSync
    /\ call[c].pc = "fanout"
    /\ call[c].src[s] = "fetching"
    /\ faults < limit.faults
    /\ faults' = faults + 1
    /\ call' = [call EXCEPT ![c].src[s] = "writeFailed"]
    /\ UNCHANGED << isRefreshing, listeners, files, cache, now, runs, gets, limit, due >>

\* writeFileRaw resolves; lines 112-114 record the success status
writeOk(c, s) ==
    /\ ~InSync
    /\ call[c].pc = "fanout"
    /\ call[c].src[s] = "writing"
    /\ files' = [files EXCEPT ![s] = FileOf(call[c].data[s], now, files[s].ver)]
    /\ call' = [call EXCEPT ![c].src[s] = "ok", ![c].data[s] = Absent,
                            ![c].statuses = @ \cup {s}]
    /\ UNCHANGED << isRefreshing, listeners, cache, now, runs, faults, gets, limit, due >>

\* writeFileRaw rejects after the file was opened (disk full, I/O error)
writeFail(c, s) ==
    /\ ~InSync
    /\ call[c].pc = "fanout"
    /\ call[c].src[s] = "writing"
    /\ faults < limit.faults
    /\ faults' = faults + 1
    /\ call' = [call EXCEPT ![c].src[s] = "writeFailed", ![c].data[s] = Absent]
    /\ UNCHANGED << isRefreshing, listeners, files, cache, now, runs, gets, limit, due >>

\* line 117: results.some(r => r.status === 'rejected')
Rejected == {"fetchFailed", "writeFailed"}

\* a line 117 that sees no rejection
anyRejected_Never(c) == FALSE

anyRejected(c) == \E s \in SourceNames : call[c].src[s] \in Rejected

StatusResult(c, rejected, statuses) ==
    [kind |-> "status", anyRejected |-> rejected, statuses |-> statuses]

\* a fan-in that issues the failed fetches again
allSettled_Retry(c) ==
    /\ ~InSync
    /\ call[c].pc = "fanout"
    /\ \A s \in SourceNames : call[c].src[s] \in {"ok"} \cup Rejected
    /\ IF anyRejected(c)
       THEN call' = [call EXCEPT ![c].src =
                        [s \in SourceNames |->
                            IF call[c].src[s] \in Rejected THEN "fetching" ELSE "ok"]]
       ELSE call' = [call EXCEPT ![c].pc = "merge"]
    /\ UNCHANGED << isRefreshing, listeners, files, cache, now, runs, faults, gets, limit, due >>

\* Promise.allSettled resolves (lines 116-120, 130)
allSettled(c) ==
    /\ ~InSync
    /\ call[c].pc = "fanout"
    /\ \A s \in SourceNames : call[c].src[s] \in {"ok"} \cup Rejected
    /\ IF anyRejected(c)
       THEN call' = [call EXCEPT ![c].pc = "finally",
                                 ![c].result = StatusResult(c, TRUE, call[c].statuses)]
       ELSE call' = [call EXCEPT ![c].pc = "merge"]
    /\ UNCHANGED << isRefreshing, listeners, files, cache, now, runs, faults, gets, limit, due >>

\* generateAllMerged reads and parses the four files (lines 78-96) and
\* writeFileRaw opens all.txt; readFile and JSON.parse throw on a missing,
\* empty or malformed file
mergeThrows == \E i \in 1..Len(ENDPOINTS) : ParseThrows(files[ENDPOINTS[i]].text)

mergeRead(c) ==
    /\ ~InSync
    /\ call[c].pc = "merge"
    /\ IF mergeThrows
       THEN /\ call' = [call EXCEPT ![c].pc = "catch", ![c].exc = TRUE]
            /\ UNCHANGED files
       ELSE /\ call' = [call EXCEPT ![c].pc = "mergeWrite",
                          ![c].merged =
                              AllPayload([i \in 1..4 |-> files[ENDPOINTS[i]].text.val])]
            /\ files' = [files EXCEPT ![AllFile] = Truncated(AllFile)]
    /\ UNCHANGED << isRefreshing, listeners, cache, now, runs, faults, gets, limit, due >>

\* a readFile of generateAllMerged rejects, or all.txt cannot be opened
mergeReadFail(c) ==
    /\ ~InSync
    /\ call[c].pc = "merge"
    /\ faults < limit.faults
    /\ faults' = faults + 1
    /\ call' = [call EXCEPT ![c].pc = "catch", ![c].exc = TRUE]
    /\ UNCHANGED << isRefreshing, listeners, files, cache, now, runs, gets, limit, due >>

\* the write of all.txt resolves; lines 121-122 record its status and the
\* listener loop starts
mergeWriteOk(c) ==
    /\ ~InSync
    /\ call[c].pc = "mergeWrite"
    /\ files' = [files EXCEPT ![AllFile] = FileOf(call[c].merged, now, files[AllFile].ver)]
    /\ call' = [call EXCEPT ![c].pc = "notify", ![c].i = 1, ![c].merged = Absent,
                            ![c].statuses = @ \cup {AllFile}]
    /\ UNCHANGED << isRefreshing, listeners, cache, now, runs, faults, gets, limit, due >>

\* the write of all.txt rejects after the file was opened
mergeWriteFail(c) ==
    /\ ~InSync
    /\ call[c].pc = "mergeWrite"
    /\ faults < limit.faults
    /\ faults' = faults + 1
    /\ call' = [call EXCEPT ![c].pc = "catch", ![c].exc = TRUE, ![c].merged = Absent]
    /\ UNCHANGED << isRefreshing, listeners, files, cache, now, runs, gets, limit, due >>

\* a listener that clears the all-sources entry only
invalidateCache_AllOnly == [cache EXCEPT !["all"] = NoEntry]

\* routes lines 56-62: the cache's listener
invalidateCache == [v \in Views |-> NoEntry]

\* lines 124-128: the position after listener i was called; the try encloses
\* the whole loop, so a throw ends it
afterListener(c, threw) ==
    IF threw
    THEN [call[c] EXCEPT !.pc = "finally",
                         !.called = @ \cup {[i |-> call[c].i, statuses |-> call[c].statuses]},
                         !.result = StatusResult(c, FALSE, call[c].statuses)]
    ELSE [call[c] EXCEPT !.i = @ + 1,
                         !.called = @ \cup {[i |-> call[c].i, statuses |-> call[c].statuses]}]

\* one turn of for (const fn of listeners) fn({ statuses }), or line 130 when
\* the loop is over
notify(c) ==
    /\ call[c].pc = "notify"
    /\ IF call[c].i > Len(listeners)
       THEN /\ call' = [call EXCEPT ![c].pc = "finally",
                          ![c].result = StatusResult(c, FALSE, call[c].statuses)]
            /\ UNCHANGED cache
       ELSE /\ call' = [call EXCEPT ![c] =
                          afterListener(c, listeners[call[c].i] = "throws")]
            /\ cache' = IF listeners[call[c].i] = "invalidate"
                        THEN invalidateCache ELSE cache
    /\ UNCHANGED << isRefreshing, listeners, files, now, runs, faults, gets, limit, due >>

\* a catch clause that throws the exception on
catchClause_Rethrow(c) == [call[c] EXCEPT !.pc = "finally"]

\* lines 131-134: the catch clause turns the exception into an error result
catchClause(c) ==
    [call[c] EXCEPT !.pc = "finally", !.exc = FALSE,
                    !.result = [kind |-> "error", anyRejected |-> FALSE,
                                statuses |-> call[c].statuses]]

catch(c) ==
    /\ call[c].pc = "catch"
    /\ call' = [call EXCEPT ![c] = catchClause(c)]
    /\ UNCHANGED << isRefreshing, listeners, files, cache, now, runs, faults, gets, limit, due >>

\* a flag reset on the paths that return a status map only
finallyFlag_NotOnError(c) == call[c].result.kind # "status"

\* a finally clause that leaves the flag as it finds it
finallyFlag_Kept(c) == isRefreshing

\* line 136: the value the finally clause leaves in isRefreshing
finallyFlag(c) == FALSE

\* routes lines 243-250: the admin handler's answer to a run that ended;
\* maybeRefresh answers nobody
answerOf(c) ==
    IF c = SchedCall THEN 0
    ELSE IF call[c].exc THEN 500
    ELSE 200

\* lines 135-137: the finally clause runs and the call is over: it returned
\* its result, or threw when an exception is still pending
finally(c) ==
    /\ call[c].pc = "finally"
    /\ isRefreshing' = finallyFlag(c)
    /\ call' = [call EXCEPT ![c].pc = "done", ![c].threw = call[c].exc,
                            ![c].resp = answerOf(c)]
    /\ UNCHANGED << listeners, files, cache, now, runs, faults, gets, limit, due >>

(***************************************************************************)
(* routes                                                                  *)
(***************************************************************************)
\* routes line 236
ADMIN_TOKEN == "dev-admin-token"

\* what a request may carry in x-admin-token; "" stands for no header
AdminTokens == {"", "wrong-token", ADMIN_TOKEN}

\* a guard that rejects a missing token only
Unauthorized_MissingOnly(token) == token = ""

\* line 240: if (!token || token !== ADMIN_TOKEN) return 401
Unauthorized(token) == token = "" \/ token # ADMIN_TOKEN

\* POST /admin/refresh up to its await (lines 238-243)
adminRefresh(c, token) ==
    /\ ~InSync
    /\ c \in AdminCalls
    /\ Free(c)
    /\ IF Unauthorized(token)
       THEN /\ call' = [call EXCEPT ![c] = [IdleCall EXCEPT !.pc = "done", !.resp = 401]]
            /\ UNCHANGED << isRefreshing, runs >>
       ELSE refreshOnceEnter(c, 202)
    /\ UNCHANGED << listeners, files, cache, now, faults, gets, limit, due >>

\* readJsonFile: readFileSync and JSON.parse throw on a missing, empty or
\* malformed file
readThrows(f) == ParseThrows(files[f].text)

\* loadGroupedGames(file)
loadGroupedGames(f) == Flatten(files[f].text.val)

MapPublic(games) == [i \in 1..Len(games) |-> toPublicGame(games[i])]

\* the games a view handler collects before it sorts them
ViewGames(v) ==
    IF v = "all"
    THEN DedupeByConceptId(
             loadGroupedGames(AllGamesOrder[1]) \o loadGroupedGames(AllGamesOrder[2])
             \o loadGroupedGames(AllGamesOrder[3]) \o loadGroupedGames(AllGamesOrder[4]),
             {})
    ELSE loadGroupedGames(ViewFile(v))

ViewSources(v) == IF v = "all" THEN SourceNames ELSE {ViewFile(v)}

\* the handler's try block throws: it answers 500 and stores nothing
viewThrows(v) ==
    \/ \E f \in ViewSources(v) : readThrows(f)
    \/ routesSortThrows(ViewGames(v))

\* the entry a handler stores on a miss; gens remembers the version of each
\* file it was built from
viewEntry(v) ==
    LET games == MapPublic(routesSortByName(ViewGames(v)))
    IN  [present |-> TRUE, count |-> Len(games), games |-> games,
         gens |-> [s \in SourceNames |->
                     IF s \in ViewSources(v) THEN files[s].ver ELSE -1]]

\* what a view handler answers in the current state: res.json(cache.x), or
\* 500 from its catch
viewAnswer(v) ==
    IF cache[v].present THEN [status |-> 200, body |-> cache[v].games]
    ELSE IF viewThrows(v) THEN [status |-> 500, body |-> << >>]
    ELSE [status |-> 200, body |-> viewEntry(v).games]

\* GET /included-games, /included-classics, /monthly-games, /ubisoft-classics
\* and /all-games: one synchronous handler
getView(v) ==
    /\ ~InSync
    /\ IF cache[v].present \/ viewThrows(v)
       THEN UNCHANGED << cache, gets >>
       ELSE /\ gets < limit.gets
            /\ gets' = gets + 1
            /\ cache' = [cache EXCEPT ![v] = viewEntry(v)]
    /\ UNCHANGED << isRefreshing, listeners, files, call, now, runs, faults, limit, due >>

\* the caller has its answer: the call's frame is gone
respond(c) ==
    /\ call[c].pc = "done"
    /\ call' = [call EXCEPT ![c] = IdleCall]
    /\ UNCHANGED << isRefreshing, listeners, files, cache, now, runs, faults, gets, limit, due >>

\* the steps of the refresher and of the admin trigger
NextRefresh ==
    \/ \E fn \in ListenerInputs : addRefreshListener(fn)
    \/ \E c \in Calls : maybeRefresh(c)
    \/ \E c \in Calls, t \in AdminTokens : adminRefresh(c, t)
    \/ \E c \in Calls : ensureDirOk(c)
    \/ \E c \in Calls : ensureDirFail(c)
    \/ \E c \in Calls, s \in SourceNames : \E d \in TextsOf(s) : fetchOk(c, s, d)
    \/ \E c \in Calls, s \in SourceNames : fetchFail(c, s)
    \/ \E c \in Calls, s \in SourceNames : openFail(c, s)
    \/ \E c \in Calls, s \in SourceNames : writeOk(c, s)
    \/ \E c \in Calls, s \in SourceNames : writeFail(c, s)
    \/ \E c \in Calls : allSettled(c)
    \/ \E c \in Calls : mergeRead(c)
    \/ \E c \in Calls : mergeReadFail(c)
    \/ \E c \in Calls : mergeWriteOk(c)
    \/ \E c \in Calls : mergeWriteFail(c)
    \/ \E c \in Calls : notify(c)
    \/ \E c \in Calls : catch(c)
    \/ \E c \in Calls : finally(c)
    \/ \E c \in Calls : respond(c)

\* the refresher and the triggers, without the view handlers (which write
\* nothing but the cache)
Spec ==
    /\ InitWith([runs |-> MaxRuns, faults |-> MaxFaults, gets |-> 0,
                 listeners |-> MaxListeners, rich |-> FALSE])
    /\ [][NextRefresh]_vars

\* one run under several I/O failures
SpecFaults ==
    /\ InitWith([runs |-> FewRuns, faults |-> ManyFaults, gets |-> 0,
                 listeners |-> MaxListeners, rich |-> FALSE])
    /\ [][NextRefresh]_vars

\* one run over the rich set of texts
SpecMerge ==
    /\ InitWith([runs |-> FewRuns, faults |-> MaxFaults, gets |-> 0,
                 listeners |-> MaxListeners, rich |-> TRUE])
    /\ [][NextRefresh]_vars

NextViews ==
    \/ NextRefresh
    \/ \E v \in Views : getView(v)

\* the whole program
SpecViews ==
    /\ InitWith([runs |-> FewRuns, faults |-> MaxFaults, gets |-> MaxGets,
                 listeners |-> MaxListeners, rich |-> FALSE])
    /\ [][NextViews]_vars

\* the steps of the program under its clock: the timer of scheduleRefresh
\* fires when it is due
NextClock ==
    \/ Tick
    \/ scheduleRefresh
    \/ \E c \in Calls, t \in AdminTokens : adminRefresh(c, t)
    \/ \E c \in Calls : ensureDirOk(c)
    \/ \E c \in Calls : ensureDirFail(c)
    \/ \E c \in Calls, s \in SourceNames : \E d \in TextsOf(s) : fetchOk(c, s, d)
    \/ \E c \in Calls, s \in SourceNames : fetchFail(c, s)
    \/ \E c \in Calls, s \in SourceNames : openFail(c, s)
    \/ \E c \in Calls, s \in SourceNames : writeOk(c, s)
    \/ \E c \in Calls, s \in SourceNames : writeFail(c, s)
    \/ \E c \in Calls : allSettled(c)
    \/ \E c \in Calls : mergeRead(c)
    \/ \E c \in Calls : mergeReadFail(c)
    \/ \E c \in Calls : mergeWriteOk(c)
    \/ \E c \in Calls : mergeWriteFail(c)
    \/ \E c \in Calls : notify(c)
    \/ \E c \in Calls : catch(c)
    \/ \E c \in Calls : finally(c)
    \/ \E c \in Calls : respond(c)

\* the process starts with snapshots at the threshold, not yet stale, or with
\* snapshots past it
StartTimes == {THREE_DAYS_MS, StartTime}

\* full_responses/ as shipped, or with one snapshot missing
StartFiles ==
    { ShippedFiles,
      [ShippedFiles EXCEPT !["plus-monthly-games-list.txt"] = FileOf(Absent, 0, 0)] }

\* the program under its clock
SpecClock ==
    /\ \E t \in StartTimes, fs \in StartFiles :
          InitAt([runs |-> FewRuns, faults |-> MaxFaults, gets |-> 0,
                  listeners |-> 0, rich |-> FALSE], t, fs)
    /\ [][NextClock]_vars

\* the steps of the run of call c: each pending promise of the run settles
\* and each continuation runs
Settle(c) ==
    \/ ensureDirOk(c)
    \/ ensureDirFail(c)
    \/ \E s \in SourceNames : \E d \in TextsOf(s) : fetchOk(c, s, d)
    \/ \E s \in SourceNames : fetchFail(c, s)
    \/ \E s \in SourceNames : openFail(c, s)
    \/ \E s \in SourceNames : writeOk(c, s)
    \/ \E s \in SourceNames : writeFail(c, s)
    \/ allSettled(c)
    \/ mergeRead(c)
    \/ mergeReadFail(c)
    \/ mergeWriteOk(c)
    \/ mergeWriteFail(c)
    \/ notify(c)
    \/ catch(c)
    \/ finally(c)

\* every fetch settles (axios resolves, rejects or times out), every file
\* operation completes, and the event loop runs every continuation that is
\* ready
Fairness ==
    /\ SF_vars(\E c \in Calls : Settle(c))
    /\ WF_vars(\E c \in Calls : respond(c))

\* the triggers, the steps of the runs and the answers
NextLive ==
    \/ \E c \in Calls : maybeRefresh(c)
    \/ \E c \in Calls, t \in AdminTokens : adminRefresh(c, t)
    \/ \E c \in Calls : Settle(c)
    \/ \E c \in Calls : respond(c)

\* the refresher and its triggers when every pending operation completes
SpecLive ==
    /\ InitWith([runs |-> FewRuns, faults |-> MaxFaults, gets |-> 0,
                 listeners |-> 0, rich |-> FALSE])
    /\ [][NextLive]_vars
    /\ Fairness

\* snapshots with conceptIds repeated across and inside sources, under
\* differing names and devices, and with a name-less game
SnapshotTexts(s) ==
    CASE s = "plus-games-list.txt" ->
           { Json(<< >>),
             Json(<< Group("PLUS", << Game(1, 2, "PS5"), Game(2, 1, "PS5") >>) >>) }
      [] s = "plus-classics-list.txt" ->
           { Json(<< Group("CLASSICS", << Game(1, 3, "PS3") >>) >>),
             Json(<< Group("CLASSICS", << Game(3, 1, "PS3"), Game(3, 2, "PS1") >>) >>) }
      [] s = "plus-monthly-games-list.txt" ->
           { Json(<< >>),
             Json(<< Group("MONTHLY", << Game(2, 3, "PS4") >>),
                     Group("MONTHLY", << Game(4, NoName, "PS4") >>) >>) }
      [] s = "ubisoft-classics-list.txt" ->
           { Json(<< Group("UBISOFT", << Game(4, 2, "PS4"), Game(1, 1, "PS4") >>) >>),
             Json(<< Group("UBISOFT", << Game(5, NoName, "PS5") >>) >>) }

\* one snapshot for each source
SnapshotPicks ==
    { pick \in [SourceNames -> UNION { SnapshotTexts(s) : s \in SourceNames }] :
        \A s \in SourceNames : pick[s] \in SnapshotTexts(s) }

\* full_responses/ holding any combination of these snapshots
SnapshotFiles ==
    { [f \in FileNames |->
          IF f = AllFile THEN ShippedFiles[AllFile] ELSE FileOf(pick[f], 0, 0)] :
      pick \in SnapshotPicks }

\* the view handlers over a data directory that does not change
NextSnapshots == \E v \in Views : getView(v)

SpecSnapshots ==
    /\ \E fs \in SnapshotFiles :
          InitAt([runs |-> 0, faults |-> 0, gets |-> MaxGets,
                  listeners |-> 0, rich |-> FALSE], StartTime, fs)
    /\ [][NextSnapshots]_vars

\* conceptIds as the upstream sends them: numbers of one to eight digits
ConceptIds == 0..MaxConceptId \cup {232192, 10000669}

\* full_responses/ with one game of any of these conceptIds
IdFiles ==
    { [ShippedFiles EXCEPT !["plus-games-list.txt"] =
          FileOf(Json(<< Group("PLUS", << Game(n, 1, "PS5") >>) >>), 0, 0)] :
      n \in ConceptIds }

\* the view handlers over snapshots of many conceptIds
SpecIds ==
    /\ \E fs \in IdFiles :
          InitAt([runs |-> 0, faults |-> 0, gets |-> MaxGets,
                  listeners |-> 0, rich |-> FALSE], StartTime, fs)
    /\ [][NextSnapshots]_vars

(***************************************************************************)
(* Properties.                                                             *)
(***************************************************************************)
\* the positions of a refresh run between its start and its return
RunPcs == {"mkdir", "fanout", "merge", "mergeWrite", "notify", "catch", "finally"}

InFlight == { c \in Calls : call[c].pc \in RunPcs }

\* call c is over and its refreshOnce did run
Ran(c) ==
    /\ call[c].pc = "done"
    /\ call[c].result.kind \in {"status", "error"} \/ call[c].threw

\* C1: at most one refresh run is in flight, whoever triggered it; a call of
\* refreshOnce made while a run is in flight returns the in-progress signal,
\* issues no fetch, writes no file, calls no listener and leaves no run to be
\* started later: a run starts only in the step of a call made while none is
\* in flight.
C1_OneRunInFlight ==
    [][ /\ Cardinality(InFlight') <= 1
        /\ \A c \in Calls :
             (call[c].pc = "idle" /\ InFlight # {} /\ call'[c].pc # "idle"
              /\ ~(c = SchedCall /\ ~needsRefresh)
              /\ ~(c # SchedCall /\ call'[c].resp = 401))
             => /\ call'[c].pc = "done"
                /\ call'[c].result = InProgressResult
                /\ \A s \in SourceNames : call'[c].src[s] = "none"
                /\ call'[c].called = {}
                /\ UNCHANGED << files, cache, isRefreshing, runs, listeners >>
                /\ \A d \in Calls \ {c} : call'[d] = call[d]
        /\ \A c \in Calls :
             (call'[c].pc = "mkdir" /\ call[c].pc # "mkdir")
             => call[c].pc = "idle" /\ InFlight = {} /\ runs' = runs + 1
        /\ runs' # runs => \E c \in Calls : call[c].pc = "idle" /\ call'[c].pc = "mkdir"
      ]_vars

\* a call answered with the in-progress signal while the other caller's run
\* is fetching, and this after an earlier run
C1_Witness ==
    \E c, d \in Calls :
        /\ c # d
        /\ call[c].pc = "done"
        /\ call[c].result.kind = "inProgress"
        /\ call[d].pc = "fanout"
        /\ runs = 2

\* the files whose content or version differs from what the run found
ChangedBy(c) == { f \in FileNames : files[f] # call[c].before[f] }

\* C2: a run in which some source's fetch fails changes exactly the source
\* files whose fetch and write succeeded: a failing source's file keeps its
\* previous content and all.txt is not rewritten.
C2_OnlySucceededFilesChange ==
    \A c \in Calls :
        (Ran(c) /\ \E s \in SourceNames : call[c].src[s] = "fetchFailed")
        => ChangedBy(c) = { s \in SourceNames : call[c].src[s] = "ok" }

\* the same, of the runs whose only failures are fetches that reject
C2_FetchFailuresOnly ==
    \A c \in Calls :
        (/\ Ran(c)
         /\ \E s \in SourceNames : call[c].src[s] = "fetchFailed"
         /\ \A s \in SourceNames : call[c].src[s] # "writeFailed")
        => ChangedBy(c) = { s \in SourceNames : call[c].src[s] = "ok" }

CountIn(seq, x) == Cardinality({ i \in 1..Len(seq) : seq[i] = x })

\* a and b hold the same games, each as often
SameGames(a, b) ==
    /\ Len(a) = Len(b)
    /\ \A i \in 1..Len(a) : CountIn(a, a[i]) = CountIn(b, a[i])

SortedByName(games) ==
    \A i \in 1..(Len(games) - 1) :
        (IF games[i].name = NoName THEN 0 ELSE games[i].name)
          <= (IF games[i + 1].name = NoName THEN 0 ELSE games[i + 1].name)

\* every source file holds what run c wrote, and all.txt, rewritten by c, is
\* one group of exactly their flattened games, sorted by name, with its count
MergedFromThisRun(c) ==
    LET all == files[AllFile]
        src == [i \in 1..4 |-> files[ENDPOINTS[i]]]
    IN  /\ \A i \in 1..4 :
             /\ src[i].ver = call[c].before[ENDPOINTS[i]].ver + 1
             /\ src[i].text.kind = "json"
        /\ all.ver = call[c].before[AllFile].ver + 1
        /\ all.text.kind = "json"
        /\ Len(all.text.val) = 1
        /\ all.text.val[1].catalogKey = "ALL"
        /\ SameGames(all.text.val[1].games,
                     Flatten(src[1].text.val) \o Flatten(src[2].text.val)
                     \o Flatten(src[3].text.val) \o Flatten(src[4].text.val))
        /\ SortedByName(all.text.val[1].games)
        /\ all.text.val[1].count = Len(all.text.val[1].games)
        /\ (\A i \in 1..4 : src[i].text.val = << >>)
           => all.text.val[1].count = 0 /\ all.text.val[1].games = << >>

AllSourcesOk(c) == \A s \in SourceNames : call[c].src[s] = "ok"

NoSourceFailed(c) == \A s \in SourceNames : call[c].src[s] \notin Rejected

Returns(c) == call[c].pc = "finally" /\ call'[c].pc = "done"

CacheEmpty == \A v \in Views : ~cache[v].present

SomeEntryCleared == \E v \in Views : cache[v].present /\ ~cache'[v].present

\* C4 as stated: the five cache entries are cleared, together and once per
\* run, if and only if a run completes with zero per-source failures: every
\* such run leaves all five absent when it returns, and no other run and no
\* rejected call clears any entry.
C4_ClearedIffNoSourceFailed ==
    [][ /\ \A c \in Calls : (Returns(c) /\ NoSourceFailed(c)) => CacheEmpty'
        /\ SomeEntryCleared
           => /\ CacheEmpty'
              /\ \E c \in Calls :
                   /\ call[c].pc = "notify"
                   /\ call[c].i = 1
                   /\ NoSourceFailed(c)
      ]_vars

\* C4 amended: ... if and only if a run completes with zero per-source
\* failures and without an error, that is, its merge step succeeded: every
\* run that returns a status map with no failure flag and no error field
\* leaves all five entries absent, and an entry is cleared only by the first
\* listener call of a run whose four sources and all.txt were written.
C4_ClearedIffRunSucceeded ==
    [][ /\ \A c \in Calls :
             (Returns(c) /\ NoSourceFailed(c) /\ call[c].result.kind = "status")
             => CacheEmpty'
        /\ SomeEntryCleared
           => /\ CacheEmpty'
              /\ \E c \in Calls :
                   /\ call[c].pc = "notify"
                   /\ call[c].i = 1
                   /\ AllSourcesOk(c)
                   /\ AllFile \in call[c].statuses
                   /\ call'[c].result.kind \in {"none", "status"}
      ]_vars

\* a successful run has returned and the entries filled before it are gone
C4_Witness ==
    \E c \in Calls :
        /\ Ran(c)
        /\ AllSourcesOk(c)
        /\ call[c].result.kind = "status"
        /\ gets >= 1
        /\ CacheEmpty

\* C5: isRefreshing is true exactly while a refresh run is active: from the
\* start of the run, before its first fetch, through every fetch, write,
\* merge step and listener call, and false once the run has returned, on
\* every exit path.
C5_FlagIffRunActive ==
    /\ isRefreshing <=> InFlight # {}
    /\ \A c \in Calls :
           (\E s \in SourceNames : call[c].src[s] \in {"fetching", "writing"})
           => c \in InFlight /\ isRefreshing

\* a run that ended in the catch clause (mkdir, merge read, parse or write
\* threw) has returned and the flag is down
C5_Witness ==
    \E c \in Calls :
        /\ call[c].pc = "done"
        /\ call[c].result.kind = "error"
        /\ ~isRefreshing

\* C6: refreshOnce never raises to its caller: under every combination of
\* fetch, write, merge and listener failures the call returns the
\* in-progress signal, a status map with the failure flag, or a status map
\* with an error field; a failed source gives the failure flag, a text that
\* does not parse the error field.
C6_NeverRaises ==
    \A c \in Calls :
        call[c].pc = "done"
        => /\ ~call[c].threw
           /\ call[c].result.kind \in {"inProgress", "status", "error", "none"}
           /\ call[c].result.kind = "none"
              => \/ c # SchedCall /\ call[c].resp = 401
                 \/ c = SchedCall /\ ~needsRefresh
           /\ (\E s \in SourceNames : call[c].src[s] \in Rejected)
              => call[c].result.kind = "status" /\ call[c].result.anyRejected
           /\ (AllSourcesOk(c) /\ mergeThrows) => call[c].result.kind = "error"

\* a run whose fetched text did not parse in the merge has returned an error
C6_Witness ==
    \E c \in Calls :
        /\ call[c].pc = "done"
        /\ AllSourcesOk(c)
        /\ files["plus-games-list.txt"].text = NotJson
        /\ call[c].result.kind = "error"
        /\ ~call[c].threw

\* C7: the status map a run returns has an entry for each of the four
\* sources, a success status or a failure status; the model's map holds the
\* entries the code writes.
C7_StatusForEverySource ==
    \A c \in Calls :
        (call[c].pc = "done" /\ call[c].result.kind = "status")
        => SourceNames \subseteq call[c].result.statuses

\* C8: on a run with zero source failures every registered listener is
\* called with the status map, also behind a listener that throws, and the
\* result stays a success.
C8_EveryListenerCalled ==
    \A c \in Calls :
        (call[c].pc = "done" /\ AllSourcesOk(c) /\ AllFile \in call[c].statuses)
        => /\ { r.i : r \in call[c].called } = 1..Len(listeners)
           /\ \A r \in call[c].called : r.statuses = call[c].result.statuses
           /\ call[c].result.kind = "status"
           /\ ~call[c].result.anyRejected

\* C9: the cached views are consistent: the all-sources view is built from
\* the same generation of each source file as that source's own cached view.
C9_CachedViewsSameGeneration ==
    \A v \in Views \ {"all"} :
        (cache[v].present /\ cache["all"].present)
        => cache["all"].gens[ViewFile(v)] = cache[v].gens[ViewFile(v)]

\* C10: a POST /admin/refresh whose token is missing or wrong is answered
\* 401 and calls no refreshOnce: no fetch, no file written, isRefreshing and
\* the cache as they were.
C10_UnauthorizedDoesNothing ==
    [][ \A c \in AdminCalls, t \in AdminTokens :
          (t # ADMIN_TOKEN /\ adminRefresh(c, t))
          => /\ call'[c].resp = 401
             /\ call'[c].pc = "done"
             /\ call'[c].result.kind = "none"
             /\ \A s \in SourceNames : call'[c].src[s] = "none"
             /\ UNCHANGED << files, isRefreshing, cache, runs, listeners >>
             /\ \A d \in Calls \ {c} : call'[d] = call[d]
      ]_vars

\* a request was answered 401 while no run was in flight
C10_Witness ==
    \E c \in AdminCalls :
        /\ call[c].pc = "done"
        /\ call[c].resp = 401
        /\ ~isRefreshing

\* C11: an authorized POST /admin/refresh answers by the outcome of the
\* refresh: 202 exactly when a run was already in flight, 500 when the run
\* hit an internal error (mkdir or the merge threw), 200 otherwise.
C11_ResponseReflectsOutcome ==
    \A c \in AdminCalls :
        (call[c].pc = "done" /\ call[c].resp # 401)
        => /\ call[c].resp = 202 <=> call[c].result.kind = "inProgress"
           /\ call[c].resp = 500 <=> call[c].result.kind = "error"
           /\ call[c].resp = 200 <=> call[c].result.kind = "status"

\* README, Notes: "Data is refreshed automatically every 3 days"
THREE_DAYS == 3

\* some source file is absent or was written more than three days ago
OlderThanThreeDays ==
    \E s \in SourceNames :
        \/ files[s].text.kind = "absent"
        \/ now - files[s].mtime > THREE_DAYS

\* the evaluation of maybeRefresh found no refresh needed
FoundFresh(c) == call[c].pc = "done" /\ call[c].result.kind = "none"

\* C12: needsRefresh reports that a refresh is needed if and only if one of
\* the four source files is absent or was written more than 3 days ago:
\* every evaluation of the scheduler goes on to refreshOnce exactly then.
C12_NeededIffOlderThanThreeDays ==
    [][ (scheduleRefresh /\ Free(SchedCall))
        => (FoundFresh(SchedCall)' <=> ~OlderThanThreeDays) ]_vars

\* some source file is missing or past the threshold the code carries
StaleOrMissing ==
    \E s \in SourceNames :
        \/ files[s].text.kind = "absent"
        \/ now - files[s].mtime > THREE_DAYS_MS

\* no call has a fetch or a write pending that it did not have
NoFetchIssued ==
    \A c \in Calls, s \in SourceNames :
        call'[c].src[s] \in {"fetching", "writing"} => call'[c].src[s] = call[c].src[s]

MidWrite(f) == files[f].text = EmptyText

\* C14: reads stay available while a run is in flight: a view request made
\* at any point of the run is answered from the cache when the view is
\* cached, and is never failed by the run, as by reading a file the run is
\* in the middle of writing.
C14_ReadsAvailableDuringRun ==
    \A v \in Views :
        (InFlight # {} /\ ~InSync)
        => /\ cache[v].present => viewAnswer(v) = [status |-> 200, body |-> cache[v].games]
           /\ (\E f \in ViewSources(v) : MidWrite(f)) => viewAnswer(v).status = 200

\* C15: a run that has started ends: when every fetch settles and every
\* file operation completes, isRefreshing does not stay true; the run waits
\* for all four sources, and a source that fails neither cancels nor blocks
\* the others.
C15_RunEnds ==
    /\ isRefreshing ~> ~isRefreshing
    /\ [][ \A c \in Calls :
             call[c].pc = "fanout" /\ call'[c].pc # "fanout"
             => \A s \in SourceNames : call[c].src[s] \in {"ok"} \cup Rejected ]_vars
    /\ [][ \A c \in Calls, s \in SourceNames :
             call'[c].src[s] \in Rejected /\ call[c].src[s] \notin Rejected
             => \A t \in SourceNames \ {s} : call'[c].src[t] = call[c].src[t] ]_vars

\* a run has returned after one source failed and another was written
C15_Witness ==
    \E c \in Calls :
        /\ call[c].pc = "done"
        /\ \E s \in SourceNames : call[c].src[s] \in Rejected
        /\ \E s \in SourceNames : call[c].src[s] = "ok"
        /\ ~isRefreshing

\* a step that triggers a refresh: an evaluation of the scheduler or an
\* authorized POST /admin/refresh
Trigger ==
    \/ maybeRefresh(SchedCall)
    \/ scheduleRefresh
    \/ \E c \in AdminCalls : adminRefresh(c, ADMIN_TOKEN)

\* C16: there is no retry: in one run each source is fetched once, a source
\* that has settled is not fetched again, and a fetch is only issued by a
\* run that a scheduler evaluation or an authorized admin request started;
\* each run started is one such trigger.
C16_NoRetry ==
    [][ /\ runs' # runs => (runs' = runs + 1 /\ Trigger)
        /\ \A c \in Calls :
             (call[c].pc = "idle" /\ call'[c].pc \in RunPcs) => runs' = runs + 1
        /\ \A c \in Calls, s \in SourceNames :
             /\ (call'[c].src[s] = "fetching" /\ call[c].src[s] # "fetching")
                => (call[c].pc = "mkdir" /\ call[c].src[s] = "none")
             /\ call[c].src[s] \in {"ok"} \cup Rejected
                => (call'[c].src[s] = call[c].src[s] \/ call'[c].pc = "idle")
      ]_vars

\* a second run has its fetches out after a first run ended with a failure
C16_Witness ==
    /\ runs = 2
    /\ faults = 1
    /\ \E c \in Calls :
          /\ call[c].pc = "fanout"
          /\ \A s \in SourceNames : call[c].src[s] = "fetching"

\* the order of priority the all-sources view is documented with:
\* included-games, classics, monthly, ubisoft-classics
PriorityOrder ==
    << "plus-games-list.txt", "plus-classics-list.txt",
       "plus-monthly-games-list.txt", "ubisoft-classics-list.txt" >>

\* the games of the four files, in the order of priority
GamesByPriority ==
    Flatten(files[PriorityOrder[1]].text.val) \o Flatten(files[PriorityOrder[2]].text.val)
    \o Flatten(files[PriorityOrder[3]].text.val) \o Flatten(files[PriorityOrder[4]].text.val)

\* the first game with conceptId id
FirstWith(games, id) ==
    games[CHOOSE i \in 1..Len(games) :
            /\ games[i].conceptId = id
            /\ \A j \in 1..(i - 1) : games[j].conceptId # id]

SortedWithEmptyName(games) ==
    \A i, j \in 1..Len(games) :
        i < j => NameOrEmpty(games[i]) <= NameOrEmpty(games[j])

\* C18: sorting by name takes an absent name as the empty string and never
\* fails: the merged file of the refresher and every view of the handlers
\* are built, and sorted so, from snapshots that hold a name-less game.
C18_NamelessSortsAsEmpty ==
    /\ LET merged == AllPayload([i \in 1..4 |-> files[ENDPOINTS[i]].text.val])
       IN  SortedWithEmptyName(merged.val[1].games)
    /\ \A v \in Views :
          /\ viewAnswer(v).status = 200
          /\ SortedWithEmptyName(viewAnswer(v).body)

\* FNV-1a as it is defined: the prime 16777619 is 256 * 65536 + 403
FNV_PRIME == 16777619

\* (h * FNV_PRIME) mod 2^32, multiplied out by halves
TimesPrime(h) ==
    LET pHi == FNV_PRIME \div Half
        pLo == FNV_PRIME % Half
        low == h.lo * pLo
    IN  Word(((low \div Half) + ((h.hi * pLo) % Half) + ((h.lo * pHi) % Half)) % Half,
             low % Half)

RECURSIVE Fnv1aReference(_)
Fnv1aReference(str) ==
    IF str = << >> THEN Word(33052, 40389)
    ELSE TimesPrime(XorChar(Fnv1aReference(SubSeq(str, 1, Len(str) - 1)), str[Len(str)]))

\* code units tried: '0', 'a', a Latin-1 one, one beyond a byte, the last one
CharCodes == {48, 97, 255, 8364, 65535}

TestStrings == UNION { [1..n -> CharCodes] : n \in 0..MaxLen }

\* the number six base-36 digits stand for
RECURSIVE FromDigits36(_)
FromDigits36(ds) ==
    IF ds = << >> THEN Word(0, 0)
    ELSE LET w   == FromDigits36(SubSeq(ds, 1, Len(ds) - 1))
             low == (w.lo * 36) + ds[Len(ds)]
         IN  Word(((w.hi * 36) + (low \div Half)) % Half, low % Half)

\* 36^6 = 2176782336
SixDigits == Word(33215, 4096)

Below(a, b) == a.hi < b.hi \/ (a.hi = b.hi /\ a.lo < b.lo)

\* id is n modulo 36^6 in exactly six digits of 0-9a-z
IsShortIdOf(id, n) ==
    /\ Len(id) = 6
    /\ \A i \in 1..6 : id[i] \in 0..35
    /\ Below(FromDigits36(id), SixDigits)
    /\ IF Below(n, SixDigits)
       THEN FromDigits36(id) = n
       ELSE Add32(FromDigits36(id), SixDigits) = n

\* C19: fnv1a32 is the FNV-1a 32-bit hash (offset basis 0x811c9dc5, each
\* character XORed in and the value multiplied by 16777619 modulo 2^32, which
\* the add-shift form equals), and shortId is that value in base 36, padded
\* with 0 and cut to its last 6 characters: always six characters of
\* [a-z0-9], the same for the same input.
C19_ShortIdIsFnv1aBase36 ==
    /\ \A str \in TestStrings :
          /\ fnv1a32(str) = Fnv1aReference(str)
          /\ IsShortIdOf(shortIdOf(str), Fnv1aReference(str))
    /\ \A v \in Views :
          cache[v].present
          => \A i \in 1..Len(cache[v].games) :
                LET g == cache[v].games[i]
                IN  /\ IsShortIdOf(g.id, Fnv1aReference(DecimalDigits(g.conceptId)))
                    /\ \A w \in Views : \A j \in 1..Len(cache[w].games) :
                          cache[w].games[j].conceptId = g.conceptId
                          => cache[w].games[j].id = g.id

\* two views hold the id of a game whose hash needs seven base-36 digits
C19_Witness ==
    /\ cache["included"].present
    /\ cache["all"].present
    /\ \E i \in 1..Len(cache["all"].games) :
          LET g == cache["all"].games[i]
          IN  /\ ~Below(Fnv1aReference(DecimalDigits(g.conceptId)), SixDigits)
              /\ g.id = cache["included"].games[1].id

\* no run is in flight and the one run of the behaviour wrote the four
\* source files and all.txt: all.txt was opened once and holds its text
LastRunSucceeded ==
    /\ InFlight = {}
    /\ runs = 1
    /\ files[AllFile].ver = 1
    /\ files[AllFile].text.kind = "json"
    /\ \A s \in SourceNames : files[s].ver = 1 /\ files[s].text.kind # "empty"

\* C20: no stale view survives a fully successful refresh: when no run is in
\* flight and the last run had no source failure and regenerated all.txt,
\* every cache entry is the view of the current source files.
C20_NoStaleViewAfterSuccess ==
    LastRunSucceeded
    => \A v \in Views :
          cache[v].present
          => /\ ~viewThrows(v)
             /\ cache[v].games = viewEntry(v).games
             /\ cache[v].count = viewEntry(v).count
             /\ \A s \in ViewSources(v) : cache[v].gens[s] = files[s].ver

\* a view computed before the end of the run was cleared and a view computed
\* after it is cached
C20_Witness ==
    /\ LastRunSucceeded
    /\ \A c \in Calls : call[c].pc = "idle"
    /\ gets = 2
    /\ Cardinality({ v \in Views : cache[v].present }) = 1

====
